---- MODULE Spec2Model ----
(***************************************************************************)
(* Model of the schema-to-annotated-SDL renderer of graphdoc,              *)
(* src/plugins/document.schema/index.ts (class SchemaPlugin).              *)
(*                                                                         *)
(* Text is a sequence of tokens (strings).  A literal of the source is     *)
(* split into its words, punctuation marks and single spaces, so that      *)
(* '( reason: ' is <<"(", " ", "reason:", " ">>.  The markup produced by   *)
(* the html helper is kept as opening and closing tokens around the        *)
(* wrapped text: html.tab(x) is <<"<tab>">> \o x \o <<"</tab>">>.         *)
(*                                                                         *)
(* A JavaScript value that is a string, null or undefined is the record    *)
(* [is |-> "string" | "null" | "undefined", s |-> text]; s = <<>> is the   *)
(* empty string.                                                           *)
(***************************************************************************)
EXTENDS Integers, Sequences, FiniteSets, TLC

VARIABLES document, call, result

vars == <<document, call, result>>

(***************************************************************************)
(* Bounds of the model.                                                    *)
(***************************************************************************)
MaxWords == 3
MaxArgs == 2
MaxValues == 2
MaxFields == 2
MaxTypes == 2
MaxDirectives == 1

(* const MAX_CODE_LEN = 80 *)
MAX_CODE_LEN == 80

(***************************************************************************)
(* JavaScript values.                                                      *)
(***************************************************************************)
Null == [is |-> "null", s |-> <<>>]

Undefined == [is |-> "undefined", s |-> <<>>]

Str(text) == [is |-> "string", s |-> text]

(* the truthiness test of `if (v)` and `!v` on a string | null | undefined *)
Truthy(v) == v.is = "string" /\ v.s # <<>>

(* the text that `'...' + v` appends *)
ToText(v) == IF v.is = "string" THEN v.s ELSE <<v.is>>

(* a name (never null) as text: the empty name is the empty string *)
Tok(name) == IF name = "" THEN <<>> ELSE <<name>>

RECURSIVE Flatten(_)
(* Array.prototype.join('') of an array of strings *)
Flatten(ss) == IF ss = <<>> THEN <<>> ELSE Head(ss) \o Flatten(Tail(ss))

RECURSIVE Join(_, _)
(* Array.prototype.join(sep) of an array of strings *)
Join(ss, sep) ==
    IF ss = <<>> THEN <<>>
    ELSE IF Len(ss) = 1 THEN Head(ss)
    ELSE Head(ss) \o sep \o Join(Tail(ss), sep)

Map(ss, Op(_)) == [i \in 1..Len(ss) |-> Op(ss[i])]

(***************************************************************************)
(* The html helper of lib/utility and the url resolver of Plugin.          *)
(***************************************************************************)
HtmlLine(code) == <<"<line>">> \o code \o <<"</line>">>

HtmlTab(code) == <<"<tab>">> \o code \o <<"</tab>">>

HtmlKeyword(code) == <<"<keyword>">> \o code \o <<"</keyword>">>

HtmlComment(code) == <<"<comment>">> \o code \o <<"</comment>">>

HtmlProperty(code) == <<"<property>">> \o code \o <<"</property>">>

HtmlValue(code) == <<"<value>">> \o code \o <<"</value>">>

HtmlHighlight(code) == <<"<strong>">> \o code \o <<"</strong>">>

HtmlIdentifier(type) == <<"<identifier>">> \o Tok(type.name) \o <<"</identifier>">>

(* the locator requested for a type: the resolver applied to its argument *)
Url(type) == IF type.undef THEN "url(undefined)" ELSE "url(" \o type.name \o ")"

HtmlUseIdentifier(type, url) ==
    <<"<use href=", url, ">">> \o Tok(type.name) \o <<"</use>">>

(***************************************************************************)
(* word-wrap.  A description is words separated by single spaces; the      *)
(* tokens "w5", "w40" and "w90" stand for words of 5, 40 and 90            *)
(* characters, every other token has the width of its text.                *)
(***************************************************************************)
Words == {"w5", "w40", "w90"}

TokLen(t) == CASE t = "w5" -> 5 [] t = "w40" -> 40 [] t = "w90" -> 90 [] OTHER -> Len(t)

RECURSIVE WordEnd(_)
(* the number of tokens of the word that text starts with *)
WordEnd(text) ==
    IF text = <<>> \/ Head(text) = " " THEN 0 ELSE 1 + WordEnd(Tail(text))

RECURSIVE TextLen(_)
TextLen(text) == IF text = <<>> THEN 0 ELSE TokLen(Head(text)) + TextLen(Tail(text))

FirstWord(text) == SubSeq(text, 1, WordEnd(text))

AfterWord(text) == SubSeq(text, WordEnd(text) + 1, Len(text))

RECURSIVE WrapFrom(_, _, _, _)
(* greedy: cur is the line being filled, of width curLen; text starts with *)
(* the space that follows cur, or is empty.  A line keeps the space it is  *)
(* broken at.                                                              *)
WrapFrom(text, cur, curLen, width) ==
    IF text = <<>> THEN <<cur>>
    ELSE IF Tail(text) = <<>> THEN <<cur \o <<" ">> >>
    ELSE LET w == FirstWord(Tail(text))
             rest == AfterWord(Tail(text))
         IN IF curLen + 1 + TextLen(w) <= width
            THEN WrapFrom(rest, cur \o <<" ">> \o w, curLen + 1 + TextLen(w), width)
            ELSE <<cur \o <<" ">> >> \o WrapFrom(rest, w, TextLen(w), width)

(* wrap(text, {width}).split('\n'): the lines of a non-empty text *)
Wrap(text, width) ==
    WrapFrom(AfterWord(text), FirstWord(text), TextLen(FirstWord(text)), width)

(***************************************************************************)
(* SchemaPlugin: the formatters.                                           *)
(***************************************************************************)
(* description(description: string): string[] *)
Description(description) ==
    IF Truthy(description)
    THEN Map(Wrap(description.s, MAX_CODE_LEN), HtmlComment)
    ELSE <<>>

(* deprecated() with the reason escaped instead of embedded as it is *)
DeprecatedEscaped(fieldOrEnumVal) ==
    IF ~fieldOrEnumVal.isDeprecated THEN <<>>
    ELSE IF ~Truthy(fieldOrEnumVal.deprecationReason)
    THEN HtmlKeyword(<<"@deprecated">>)
    ELSE HtmlKeyword(<<"@deprecated">>)
         \o <<"(", " ", "reason:", " ">>
         \o HtmlValue(<<"\"">>
                      \o [i \in 1..Len(fieldOrEnumVal.deprecationReason.s) |->
                             IF fieldOrEnumVal.deprecationReason.s[i] = "say \"no\""
                             THEN "say &quot;no&quot;"
                             ELSE fieldOrEnumVal.deprecationReason.s[i]]
                      \o <<"\"", " ">>)
         \o <<" ", ")">>

(* deprecated(fieldOrEnumVal): string *)
Deprecated(fieldOrEnumVal) ==
    IF ~fieldOrEnumVal.isDeprecated THEN <<>>
    ELSE IF ~Truthy(fieldOrEnumVal.deprecationReason)
    THEN HtmlKeyword(<<"@deprecated">>)
    ELSE HtmlKeyword(<<"@deprecated">>)
         \o <<"(", " ", "reason:", " ">>
         \o HtmlValue(<<"\"">> \o fieldOrEnumVal.deprecationReason.s \o <<"\"", " ">>)
         \o <<" ", ")">>

(* inputValue(arg: InputValue): string *)
InputValue(arg) ==
    Flatten(Map(
        Description(arg.description)
        \o << HtmlProperty(Tok(arg.name)) \o <<":", " ">>
              \o HtmlUseIdentifier(arg.type, Url(arg.type)) >>,
        LAMBDA line : HtmlLine(HtmlTab(line))))

(* arguments(fieldOrDirectives): string *)
Arguments(fieldOrDirectives) ==
    IF Len(fieldOrDirectives.args) = 0 THEN <<>>
    ELSE <<"(">>
         \o Join(Map(fieldOrDirectives.args, InputValue), <<",", " ">>)
         \o <<")">>

(* argumentDescription(arg: InputValue): string[] *)
ArgumentDescription(arg) ==
    LET desc == IF arg.description.is = "null"
                THEN <<"[">> \o HtmlHighlight(<<"Not", " ", "documented">>) \o <<"]">>
                ELSE ToText(arg.description)
    IN Description(Str(HtmlHighlight(Tok(arg.name)) \o <<":", " ">> \o desc))

(* argumentsDescription(fieldOrDirectives): string[] *)
ArgumentsDescription(fieldOrDirectives) ==
    IF Len(fieldOrDirectives.args) = 0 THEN <<>>
    ELSE <<HtmlComment(<<"Arguments">>)>>
         \o Flatten(Map(fieldOrDirectives.args, ArgumentDescription))

(* directive(directive: Directive): string *)
Directive(directive) ==
    HtmlLine(
        HtmlKeyword(<<"directive">>) \o <<" ">>
        \o HtmlKeyword(<<"@">> \o Tok(directive.name)) \o Arguments(directive)
        \o <<" ", "on", " ">>
        \o Join(Map(directive.locations, LAMBDA location : HtmlKeyword(Tok(location))),
                <<" ", "|", " ">>))

(* enum()'s reduce with the enum values taken last to first *)
EnumLinesReversed(type) ==
    Flatten([i \in 1..Len(type.enumValues) |->
        LET enumValue == type.enumValues[Len(type.enumValues) + 1 - i]
        IN << <<>> >>
           \o Description(enumValue.description)
           \o << HtmlProperty(Tok(enumValue.name)) \o Deprecated(enumValue) >>])

(* the array that enum() reduces the enum values to *)
EnumLines(type) ==
    Flatten(Map(type.enumValues,
        LAMBDA enumValue :
            << <<>> >>
            \o Description(enumValue.description)
            \o << HtmlProperty(Tok(enumValue.name)) \o Deprecated(enumValue) >>))

(* enum(type: SchemaType): string *)
Enum(type) ==
    HtmlLine(HtmlKeyword(<<"enum">>) \o <<" ">> \o HtmlIdentifier(type) \o <<" ", "{">>)
    \o Flatten(Map(EnumLines(type), LAMBDA line : HtmlLine(HtmlTab(line))))
    \o HtmlLine(<<"}">>)

(* field() pushing the blank comment whenever the field has arguments *)
FieldLinesAlwaysBlank(field) ==
    LET fieldDescription == Description(field.description)
        argumentsDescription == ArgumentsDescription(field)
        pushed == IF Len(argumentsDescription) # 0
                  THEN fieldDescription \o <<HtmlComment(<<>>)>>
                  ELSE fieldDescription
    IN pushed
       \o argumentsDescription
       \o << HtmlProperty(Tok(field.name)) \o Arguments(field) \o <<":", " ">>
             \o HtmlUseIdentifier(field.type, Url(field.type)) \o <<" ">>
             \o Deprecated(field) >>

(* the array that field() maps to lines *)
FieldLines(field) ==
    LET fieldDescription == Description(field.description)
        argumentsDescription == ArgumentsDescription(field)
        pushed == IF Len(fieldDescription) > 0 /\ Len(argumentsDescription) # 0
                  THEN fieldDescription \o <<HtmlComment(<<>>)>>
                  ELSE fieldDescription
    IN pushed
       \o argumentsDescription
       \o << HtmlProperty(Tok(field.name)) \o Arguments(field) \o <<":", " ">>
             \o HtmlUseIdentifier(field.type, Url(field.type)) \o <<" ">>
             \o Deprecated(field) >>

(* field(field: Field): string *)
Field(field) == Flatten(Map(FieldLines(field), LAMBDA line : HtmlLine(HtmlTab(line))))

(* fields(type: SchemaType): string *)
Fields(type) == HtmlLine(<<>>) \o Join(Map(type.fields, Field), HtmlLine(<<>>))

(* inputValues(inputValues: InputValue[]): string *)
InputValues(inputValues) ==
    Flatten(Map(inputValues, LAMBDA inputValue : HtmlLine(HtmlTab(InputValue(inputValue)))))

(* inputObject(type: SchemaType): string *)
InputObject(type) ==
    HtmlLine(HtmlKeyword(<<"input">>) \o <<" ">> \o HtmlIdentifier(type) \o <<" ", "{">>)
    \o InputValues(type.inputFields)
    \o HtmlLine(<<"}">>)

(* interfaces(type: SchemaType): string *)
Interfaces(type) ==
    HtmlLine(HtmlKeyword(<<"interface">>) \o <<" ">> \o HtmlIdentifier(type) \o <<" ", "{">>)
    \o Fields(type)
    \o HtmlLine(<<"}">>)

(* object(type: SchemaType): string *)
Object(type) ==
    LET interfaces == Join(Map(type.interfaces,
                               LAMBDA i : HtmlUseIdentifier(i, Url(i))), <<",", " ">>)
        implement == IF Len(interfaces) = 0 THEN <<>>
                     ELSE <<" ">> \o HtmlKeyword(<<"implements">>) \o <<" ">> \o interfaces
    IN HtmlLine(HtmlKeyword(<<"type">>) \o <<" ">> \o HtmlIdentifier(type)
                \o implement \o <<" ", "{">>)
       \o Fields(type)
       \o HtmlLine(<<"}">>)

(* scalar(type: SchemaType): string *)
Scalar(type) == HtmlLine(HtmlKeyword(<<"scalar">>) \o <<" ">> \o HtmlIdentifier(type))

(* union(type: SchemaType): string *)
Union(type) ==
    HtmlLine(
        HtmlKeyword(<<"union">>) \o <<" ">> \o HtmlIdentifier(type) \o <<" ", "=", " ">>
        \o Join(Map(type.possibleTypes, LAMBDA t : HtmlUseIdentifier(t, Url(t))),
                <<" ", "|", " ">>))

(* the subscription line with the locator of the subscription type *)
SubscriptionUrlOwn(schema) == Url(schema.subscriptionType)

(* the locator that schema() requests for the subscription line *)
SubscriptionUrl(schema) == Url(schema.mutationType)

(* a root operation without the lines of its description *)
RootOperationBare(operation, type, url) ==
    HtmlLine(<<>>)
    \o HtmlLine(HtmlTab(
           HtmlProperty(<<operation>>) \o <<":", " ">> \o HtmlUseIdentifier(type, url)))

(* one root operation of schema(): blank line, description, operation line *)
RootOperation(operation, type, url) ==
    HtmlLine(<<>>)
    \o Flatten(Map(Description(type.description), LAMBDA line : HtmlLine(HtmlTab(line))))
    \o HtmlLine(HtmlTab(
           HtmlProperty(<<operation>>) \o <<":", " ">> \o HtmlUseIdentifier(type, url)))

(* schema(schema: Schema): string *)
Schema(schema) ==
    HtmlLine(HtmlKeyword(<<"schema">>) \o <<" ", "{">>)
    \o (IF ~schema.queryType.undef
        THEN RootOperation("query", schema.queryType, Url(schema.queryType))
        ELSE <<>>)
    \o (IF ~schema.mutationType.undef
        THEN RootOperation("mutation", schema.mutationType, Url(schema.mutationType))
        ELSE <<>>)
    \o (IF ~schema.subscriptionType.undef
        THEN RootOperation("subscription", schema.subscriptionType, SubscriptionUrl(schema))
        ELSE <<>>)
    \o HtmlLine(<<"}">>)

(***************************************************************************)
(* SchemaPlugin: the dispatcher.                                           *)
(***************************************************************************)
Text(text) == [kind |-> "text", text |-> text]

Throw(error, message) == [kind |-> "throw", error |-> error, text |-> message]

RECURSIVE Find(_, _)
(* Array.prototype.find by name: the first match *)
Find(list, name) ==
    IF list = <<>> THEN [found |-> FALSE]
    ELSE IF Str(Tok(Head(list).name)) = name THEN [found |-> TRUE, value |-> Head(list)]
    ELSE Find(Tail(list), name)

(* the switch of code() with the union and enum cases exchanged *)
SwitchExchanged(type) ==
    CASE type.kind = "SCALAR" -> Text(Scalar(type))
      [] type.kind = "OBJECT" -> Text(Object(type))
      [] type.kind = "INTERFACE" -> Text(Interfaces(type))
      [] type.kind = "UNION" -> Text(Enum(type))
      [] type.kind = "ENUM" -> Text(Union(type))
      [] type.kind = "INPUT_OBJECT" -> Text(InputObject(type))
      [] OTHER -> [kind |-> "fallthrough"]

(* the switch of code() over type.kind *)
Switch(type) ==
    CASE type.kind = "SCALAR" -> Text(Scalar(type))
      [] type.kind = "OBJECT" -> Text(Object(type))
      [] type.kind = "INTERFACE" -> Text(Interfaces(type))
      [] type.kind = "UNION" -> Text(Union(type))
      [] type.kind = "ENUM" -> Text(Enum(type))
      [] type.kind = "INPUT_OBJECT" -> Text(InputObject(type))
      [] OTHER -> [kind |-> "fallthrough"]

(* the directive that code() looks up before any type *)
FindDirective(schema, buildForType) == Find(schema.directives, buildForType)

(* code(buildForType?: string): string, on this.document = schema *)
Code(schema, buildForType) ==
    IF ~Truthy(buildForType) THEN Text(Schema(schema))
    ELSE LET directive == FindDirective(schema, buildForType)
             type == Find(schema.types, buildForType)
             unexpected == Throw("TypeError",
                                 <<"Unexpected", " ", "type:", " ">> \o ToText(buildForType))
         IN IF directive.found THEN Text(Directive(directive.value))
            ELSE IF type.found /\ Switch(type.value).kind # "fallthrough"
                 THEN Switch(type.value)
                 ELSE unexpected

(***************************************************************************)
(* The schema object model the renderers are applied to.                   *)
(***************************************************************************)
Kinds == {"SCALAR", "OBJECT", "INTERFACE", "UNION", "ENUM", "INPUT_OBJECT"}

TypeRef(name) == [undef |-> FALSE, name |-> name]

UndefinedType == [undef |-> TRUE, name |-> "", description |-> Null]

Spaced(ws) == Join([i \in 1..Len(ws) |-> <<ws[i]>>], <<" ">>)

(* every description of at most MaxWords words, null and '' included *)
Descriptions ==
    {Null, Undefined, Str(<<>>)}
    \cup {Str(Spaced(ws)) : ws \in UNION {[1..n -> Words] : n \in 1..MaxWords}}

DescSamples ==
    {Null, Str(<<>>), Str(<<"w5">>), Str(<<"w40", " ", "w40", " ", "w5">>)}

ArgDescs == {Null, Undefined, Str(<<>>), Str(<<"w5">>)}

ValueDescs == {Null, Str(<<>>), Str(<<"w5">>)}

Reasons == {Null, Str(<<>>), Str(<<"use ACTIVE">>), Str(<<"say \"no\"">>)}

ArgName(i) == IF i = 1 THEN "id" ELSE "arg" \o ToString(i)

ArgType(i) == IF i = 1 THEN TypeRef("ID") ELSE TypeRef("Int")

InputValueLists ==
    UNION {{[i \in 1..n |-> [name |-> ArgName(i), description |-> d[i],
                             type |-> ArgType(i)]] : d \in [1..n -> ArgDescs]}
           : n \in 0..MaxArgs}

NewField(description, args, isDeprecated, deprecationReason) ==
    [name |-> "f", description |-> description, args |-> args, type |-> TypeRef("T"),
     isDeprecated |-> isDeprecated, deprecationReason |-> deprecationReason]

(* deprecated() reads isDeprecated and deprecationReason only *)
DeprecatedInputs == {NewField(Null, <<>>, b, r) : b \in BOOLEAN, r \in Reasons}

(* arguments() and argumentsDescription() read args only *)
ArgumentsInputs == {NewField(Null, a, FALSE, Null) : a \in InputValueLists}

Deprecations ==
    {[isDeprecated |-> FALSE, deprecationReason |-> Null],
     [isDeprecated |-> TRUE, deprecationReason |-> Null],
     [isDeprecated |-> TRUE, deprecationReason |-> Str(<<"use ACTIVE">>)]}

FieldInputs ==
    {NewField(d, a, p.isDeprecated, p.deprecationReason)
     : d \in DescSamples, a \in InputValueLists, p \in Deprecations}

EnumValueLists ==
    UNION {{[i \in 1..n |-> [name |-> "V" \o ToString(i), description |-> d[i],
                             isDeprecated |-> p[i].isDeprecated,
                             deprecationReason |-> p[i].deprecationReason]]
            : d \in [1..n -> ValueDescs], p \in [1..n -> Deprecations]}
           : n \in 0..MaxValues}

FieldSamples ==
    {NewField(d, a, b, Null)
     : d \in {Null, Str(<<"w5">>)},
       a \in {<<>>, <<[name |-> "id", description |-> Null, type |-> TypeRef("ID")]>>},
       b \in BOOLEAN}

FieldLists == UNION {[1..n -> FieldSamples] : n \in 0..MaxFields}

NoMembers ==
    [fields |-> <<>>, interfaces |-> <<>>, possibleTypes |-> <<>>, enumValues |-> <<>>,
     inputFields |-> <<>>]

NewType(name, kind, description, members) ==
    [undef |-> FALSE, name |-> name, kind |-> kind, description |-> description,
     fields |-> members.fields, interfaces |-> members.interfaces,
     possibleTypes |-> members.possibleTypes, enumValues |-> members.enumValues,
     inputFields |-> members.inputFields]

EnumInputs ==
    {NewType("E", "ENUM", Null, [NoMembers EXCEPT !.enumValues = v]) : v \in EnumValueLists}

InputObjectInputs ==
    {NewType("In", "INPUT_OBJECT", Null, [NoMembers EXCEPT !.inputFields = v])
     : v \in InputValueLists}

InterfaceLists == {<<>>, <<TypeRef("I1")>>, <<TypeRef("I1"), TypeRef("I2")>>}

ObjectInputs ==
    {NewType("O", "OBJECT", Null, [NoMembers EXCEPT !.fields = f, !.interfaces = i])
     : f \in FieldLists, i \in InterfaceLists}

InterfaceInputs ==
    {NewType("I1", "INTERFACE", Null, [NoMembers EXCEPT !.fields = f]) : f \in FieldLists}

UnionInputs ==
    {NewType("Pet", "UNION", Null, [NoMembers EXCEPT !.possibleTypes = p])
     : p \in {<<TypeRef("Cat")>>, <<TypeRef("Cat"), TypeRef("Dog")>>}}

DirectiveInputs ==
    {[name |-> "skip", description |-> Null, args |-> a, locations |-> l]
     : a \in InputValueLists, l \in {<<"FIELD">>, <<"FIELD", "OBJECT">>}}

RootChoices(name, descs) ==
    {UndefinedType} \cup {NewType(name, "OBJECT", d, NoMembers) : d \in descs}

NewSchema(q, m, s, directives, types) ==
    [queryType |-> q, mutationType |-> m, subscriptionType |-> s,
     directives |-> directives, types |-> types]

SchemaInputs ==
    {NewSchema(q, m, s, <<>>, <<>>) :
        q \in RootChoices("Query", DescSamples \ {Str(<<>>)}),
        m \in RootChoices("Mutation", DescSamples \ {Str(<<>>)}),
        s \in RootChoices("Subscription", DescSamples \ {Str(<<>>)})}

(* one type of each kind with every member list filled *)
SampleType(name, kind) ==
    NewType(name, kind, Str(<<"w5">>),
            [fields |-> <<[name |-> "f", description |-> Null,
                           args |-> <<[name |-> "id", description |-> Null,
                                       type |-> TypeRef("ID")]>>,
                           type |-> TypeRef("T"), isDeprecated |-> FALSE,
                           deprecationReason |-> Null]>>,
             interfaces |-> <<TypeRef("I1")>>,
             possibleTypes |-> <<TypeRef("Cat"), TypeRef("Dog")>>,
             enumValues |-> <<[name |-> "V1", description |-> Null,
                               isDeprecated |-> TRUE,
                               deprecationReason |-> Str(<<"use ACTIVE">>)]>>,
             inputFields |-> <<[name |-> "id", description |-> Null,
                                type |-> TypeRef("ID")]>>])

TypeName(i) == "T" \o ToString(i)

KindAt(i) ==
    <<"SCALAR", "OBJECT", "INTERFACE", "UNION", "ENUM", "INPUT_OBJECT">>[((i - 1) % 6) + 1]

(* the kinds of the types of a list follow each other from any first kind *)
TypeLists ==
    UNION {{[i \in 1..n |-> SampleType(TypeName(i), KindAt(k + i))] : k \in 1..6}
           : n \in 0..MaxTypes}

DirectiveNames(i) == IF i = 1 THEN {TypeName(1), "skip"} ELSE {"dir" \o ToString(i)}

DirectiveLists ==
    UNION {{[i \in 1..n |-> [name |-> d[i], description |-> Null, args |-> <<>>,
                             locations |-> <<"FIELD">>]]
            : d \in {e \in [1..n -> UNION {DirectiveNames(i) : i \in 1..n}] :
                        \A i \in 1..n : e[i] \in DirectiveNames(i)}}
           : n \in 0..MaxDirectives}

Documents ==
    {NewSchema(q, m, s, d, t) :
        q \in RootChoices("Query", {Null}),
        m \in RootChoices("Mutation", {Null}),
        s \in RootChoices("Subscription", {Null}),
        d \in DirectiveLists, t \in TypeLists}

(* the names a caller asks for: none, '', every type and directive name, *)
(* and one that the schema does not hold                                  *)
Targets ==
    {Undefined, Str(<<>>), Str(<<"skip">>), Str(<<"Nope">>)}
    \cup {Str(<<TypeName(i)>>) : i \in 1..MaxTypes}

(***************************************************************************)
(* The state machine: the plugin is constructed on a document, and one     *)
(* method is applied to an input.  call is the method and its input,       *)
(* result what it returned or threw.                                       *)
(***************************************************************************)
NoCall == [op |-> "none"]

NoResult == [kind |-> "none"]

Lines(lines) == [kind |-> "lines", lines |-> lines]

Idle == call = NoCall

Init ==
    /\ document \in Documents
    /\ call = NoCall
    /\ result = NoResult

CallCode == \E buildForType \in Targets :
    /\ Idle
    /\ call' = [op |-> "code", arg |-> buildForType]
    /\ result' = Code(document, buildForType)
    /\ UNCHANGED document

CallSchema ==
    /\ Idle
    /\ call' = [op |-> "schema", arg |-> document]
    /\ result' = Text(Schema(document))
    /\ UNCHANGED document

Next == CallCode \/ CallSchema

Spec == Init /\ [][Next]_vars

(* the renderers applied on their own *)
InitRender ==
    /\ document = NewSchema(UndefinedType, UndefinedType, UndefinedType, <<>>, <<>>)
    /\ call = NoCall
    /\ result = NoResult

CallDescription == \E d \in Descriptions :
    /\ Idle
    /\ call' = [op |-> "description", arg |-> d]
    /\ result' = Lines(Description(d))
    /\ UNCHANGED document

CallDeprecated == \E f \in DeprecatedInputs :
    /\ Idle
    /\ call' = [op |-> "deprecated", arg |-> f]
    /\ result' = Text(Deprecated(f))
    /\ UNCHANGED document

CallArguments == \E f \in ArgumentsInputs :
    /\ Idle
    /\ call' = [op |-> "arguments", arg |-> f]
    /\ result' = Text(Arguments(f))
    /\ UNCHANGED document

CallArgumentDescription == \E l \in InputValueLists : \E i \in 1..Len(l) :
    /\ Idle
    /\ call' = [op |-> "argumentDescription", arg |-> l[i]]
    /\ result' = Lines(ArgumentDescription(l[i]))
    /\ UNCHANGED document

CallArgumentsDescription == \E f \in ArgumentsInputs :
    /\ Idle
    /\ call' = [op |-> "argumentsDescription", arg |-> f]
    /\ result' = Lines(ArgumentsDescription(f))
    /\ UNCHANGED document

CallInputValue == \E l \in InputValueLists : \E i \in 1..Len(l) :
    /\ Idle
    /\ call' = [op |-> "inputValue", arg |-> l[i]]
    /\ result' = Text(InputValue(l[i]))
    /\ UNCHANGED document

CallField == \E f \in FieldInputs :
    /\ Idle
    /\ call' = [op |-> "field", arg |-> f]
    /\ result' = Text(Field(f))
    /\ UNCHANGED document

CallDirective == \E d \in DirectiveInputs :
    /\ Idle
    /\ call' = [op |-> "directive", arg |-> d]
    /\ result' = Text(Directive(d))
    /\ UNCHANGED document

CallEnum == \E t \in EnumInputs :
    /\ Idle
    /\ call' = [op |-> "enum", arg |-> t]
    /\ result' = Text(Enum(t))
    /\ UNCHANGED document

CallInputObject == \E t \in InputObjectInputs :
    /\ Idle
    /\ call' = [op |-> "inputObject", arg |-> t]
    /\ result' = Text(InputObject(t))
    /\ UNCHANGED document

CallInterfaces == \E t \in InterfaceInputs :
    /\ Idle
    /\ call' = [op |-> "interfaces", arg |-> t]
    /\ result' = Text(Interfaces(t))
    /\ UNCHANGED document

CallObject == \E t \in ObjectInputs :
    /\ Idle
    /\ call' = [op |-> "object", arg |-> t]
    /\ result' = Text(Object(t))
    /\ UNCHANGED document

ScalarInputs == {NewType("Date", "SCALAR", d, NoMembers) : d \in DescSamples}

CallScalar == \E t \in ScalarInputs :
    /\ Idle
    /\ call' = [op |-> "scalar", arg |-> t]
    /\ result' = Text(Scalar(t))
    /\ UNCHANGED document

CallUnion == \E t \in UnionInputs :
    /\ Idle
    /\ call' = [op |-> "union", arg |-> t]
    /\ result' = Text(Union(t))
    /\ UNCHANGED document

CallRootSchema == \E s \in SchemaInputs :
    /\ Idle
    /\ call' = [op |-> "schema", arg |-> s]
    /\ result' = Text(Schema(s))
    /\ UNCHANGED document

NextRender ==
    \/ CallInputObject
    \/ CallDescription
    \/ CallDeprecated
    \/ CallArguments
    \/ CallArgumentDescription
    \/ CallArgumentsDescription
    \/ CallInputValue
    \/ CallField
    \/ CallDirective
    \/ CallEnum
    \/ CallInterfaces
    \/ CallObject
    \/ CallScalar
    \/ CallUnion
    \/ CallRootSchema

SpecRender == InitRender /\ [][NextRender]_vars

(***************************************************************************)
(* Reading a rendered text.                                                *)
(***************************************************************************)
Markup ==
    {"<line>", "</line>", "<tab>", "</tab>", "<keyword>", "</keyword>", "<comment>",
     "</comment>", "<property>", "</property>", "<value>", "</value>", "<strong>",
     "</strong>", "<identifier>", "</identifier>", "</use>"}

RECURSIVE Plain(_)
(* the text without its markup *)
Plain(text) ==
    IF text = <<>> THEN <<>>
    ELSE IF Head(text) = "<use href=" THEN Plain(SubSeq(text, 4, Len(text)))
    ELSE IF Head(text) \in Markup THEN Plain(Tail(text))
    ELSE <<Head(text)>> \o Plain(Tail(text))

Contains(text, part) ==
    \E i \in 0..(Len(text) - Len(part)) : SubSeq(text, i + 1, i + Len(part)) = part

Count(text, token) == Cardinality({i \in 1..Len(text) : text[i] = token})

(* the number of lines open before position i *)
LineDepth(text, i) ==
    Count(SubSeq(text, 1, i - 1), "<line>") - Count(SubSeq(text, 1, i - 1), "</line>")

Opens(text) == {i \in 1..Len(text) : text[i] = "<line>" /\ LineDepth(text, i) = 0}

Closes(text) == {i \in 1..Len(text) : text[i] = "</line>" /\ LineDepth(text, i) = 1}

Nth(S, k) == CHOOSE i \in S : Cardinality({j \in S : j <= i}) = k

(* the contents of the lines of a text, a line nested in a line left in it *)
TopLines(text) ==
    LET opens == Opens(text)
        closes == Closes(text)
    IN [k \in 1..Cardinality(opens) |->
           SubSeq(text, Nth(opens, k) + 1, Nth(closes, k) - 1)]

(* the text is lines and nothing but lines *)
OnlyLines(text) == Flatten(Map(TopLines(text), HtmlLine)) = text

Middle(lines) == SubSeq(lines, 2, Len(lines) - 1)

(***************************************************************************)
(* C3 as stated: a field or enum value that is not deprecated has an empty *)
(* marker; one deprecated with no reason given has the bare deprecated     *)
(* keyword and no reason: clause; one deprecated with a reason R given has *)
(* a marker that contains (reason: "R") with R as it is between double     *)
(* quotes.                                                                 *)
(***************************************************************************)
C3_AsStated ==
    call.op = "deprecated" =>
        LET f == call.arg
            marker == Plain(result.text)
        IN /\ ~f.isDeprecated => result.text = <<>>
           /\ f.isDeprecated /\ f.deprecationReason.is # "string" =>
                  marker = <<"@deprecated">> /\ Count(result.text, "reason:") = 0
           /\ f.isDeprecated /\ f.deprecationReason.is = "string" =>
                  Contains(marker, <<"(", "reason:", " ", "\"">> \o f.deprecationReason.s
                                   \o <<"\"", ")">>)

(***************************************************************************)
(* C3 as amended: a field or enum value that is not deprecated has an      *)
(* empty marker; one deprecated with no reason, or with the empty string   *)
(* as its reason, has the bare @deprecated keyword and no reason: clause;  *)
(* one deprecated with a non-empty reason R has the keyword followed by    *)
(* ( reason: "R"  ) -- a space after the opening parenthesis, R as it is   *)
(* between double quotes, and two spaces before the closing parenthesis.   *)
(***************************************************************************)
C3_DeprecationMarker ==
    call.op = "deprecated" =>
        LET f == call.arg
            marker == Plain(result.text)
        IN /\ ~f.isDeprecated => result.text = <<>>
           /\ f.isDeprecated /\ ~Truthy(f.deprecationReason) =>
                  marker = <<"@deprecated">> /\ Count(result.text, "reason:") = 0
           /\ f.isDeprecated /\ Truthy(f.deprecationReason) =>
                  marker = <<"@deprecated", "(", " ", "reason:", " ", "\"">>
                           \o f.deprecationReason.s \o <<"\"", " ", " ", ")">>

C3_Witness ==
    /\ call.op = "deprecated"
    /\ call.arg.isDeprecated
    /\ call.arg.deprecationReason = Str(<<"say \"no\"">>)
    /\ Contains(result.text, <<"\"", "say \"no\"", "\"">>)

(***************************************************************************)
(* C4: description() of an absent or empty description is the empty        *)
(* sequence, and the entry of an argument with no description in the       *)
(* Arguments block is the one comment <argName>: [Not documented].         *)
(***************************************************************************)
C4_DescriptionFallback ==
    /\ call.op = "description" /\ ~Truthy(call.arg) => result.lines = <<>>
    /\ call.op = "argumentDescription" /\ ~Truthy(call.arg.description) =>
           /\ Len(result.lines) = 1
           /\ Plain(result.lines[1])
                  = Tok(call.arg.name) \o <<":", " ", "[", "Not", " ", "documented", "]">>

(***************************************************************************)
(* C5: the argument list of a field or directive is the empty string when  *)
(* there are no arguments, and otherwise ( then one name: Type pair for    *)
(* each argument in declared order, joined by a comma and a space, then )  *)
(* with nothing else between the parentheses.                              *)
(***************************************************************************)
C5_ArgumentList ==
    call.op = "arguments" =>
        LET pair(arg) == HtmlProperty(Tok(arg.name)) \o <<":", " ">>
                         \o HtmlUseIdentifier(arg.type, Url(arg.type))
        IN result.text =
               IF call.arg.args = <<>> THEN <<>>
               ELSE <<"(">> \o Join(Map(call.arg.args, pair), <<",", " ">>) \o <<")">>

(***************************************************************************)
(* C6: an enum renders as its header line, then for each enum value in     *)
(* declared order one blank separator line, the comment lines of its       *)
(* description (none if it has no description) and one line with its name  *)
(* and deprecation marker, then the closing brace line; with n values      *)
(* there are exactly n blank lines and n value lines.                      *)
(***************************************************************************)
C6_EnumLayout ==
    call.op = "enum" =>
        LET type == call.arg
            n == Len(type.enumValues)
            lines == TopLines(result.text)
            valueLine(v) == HtmlTab(HtmlProperty(Tok(v.name)) \o Deprecated(v))
            block(v) == <<HtmlTab(<<>>)>>
                        \o Map(Description(v.description), HtmlTab)
                        \o <<valueLine(v)>>
        IN /\ OnlyLines(result.text)
           /\ Plain(lines[1]) = <<"enum", " ", type.name, " ", "{">>
           /\ lines[Len(lines)] = <<"}">>
           /\ Middle(lines) = Flatten(Map(type.enumValues, block))
           /\ Cardinality({i \in 1..Len(lines) : lines[i] = HtmlTab(<<>>)}) = n
           /\ Cardinality({i \in 1..Len(lines) :
                             \E j \in 1..n : lines[i] = valueLine(type.enumValues[j])}) = n

C6_Witness ==
    /\ call.op = "enum"
    /\ Len(call.arg.enumValues) = 2
    /\ call.arg.enumValues[1].description = Null
    /\ ~call.arg.enumValues[1].isDeprecated
    /\ call.arg.enumValues[2].isDeprecated
    /\ call.arg.enumValues[2].deprecationReason = Str(<<"use ACTIVE">>)
    /\ Len(TopLines(result.text)) = 6

(***************************************************************************)
(* C8: a field renders its own description, then its argument              *)
(* descriptions, then its declaration as the single last line; one blank   *)
(* comment line stands between the two blocks when both are non-empty and  *)
(* none when at most one is.                                               *)
(***************************************************************************)
C8_BlankCommentRule ==
    call.op = "field" =>
        LET field == call.arg
            lines == TopLines(result.text)
            own == Map(Description(field.description), HtmlTab)
            args == Map(ArgumentsDescription(field), HtmlTab)
            blank == HtmlTab(HtmlComment(<<>>))
            both == own # <<>> /\ args # <<>>
            declaration == lines[Len(lines)]
        IN /\ OnlyLines(result.text)
           /\ lines = own \o (IF both THEN <<blank>> ELSE <<>>) \o args \o <<declaration>>
           /\ Cardinality({i \in 1..Len(lines) : lines[i] = blank}) = IF both THEN 1 ELSE 0
           /\ SubSeq(declaration, 1, 4) = <<"<tab>", "<property>", field.name, "</property>">>

C8_Witness ==
    /\ call.op = "field"
    /\ Truthy(call.arg.description)
    /\ Len(call.arg.args) = 2
    /\ Cardinality({i \in 1..Len(TopLines(result.text)) :
                      TopLines(result.text)[i] = HtmlTab(HtmlComment(<<>>))}) = 1

(***************************************************************************)
(* C9: every line of a field, argument, enum value or input field is       *)
(* indented exactly once and is one line; every header line, closing       *)
(* brace line and directive, scalar or union line is not indented.         *)
(***************************************************************************)
C9_Indentation ==
    LET lines == TopLines(result.text)
        once(line) == /\ Count(line, "<tab>") = 1
                      /\ Count(line, "<line>") = 0
                      /\ Head(line) = "<tab>"
        never(line) == Count(line, "<tab>") = 0 /\ Count(line, "<line>") = 0
    IN /\ call.op \in {"enum", "inputObject", "object", "interfaces", "schema"} =>
           /\ never(lines[1])
           /\ never(lines[Len(lines)])
           /\ \A i \in 2..(Len(lines) - 1) : lines[i] = <<>> \/ once(lines[i])
       /\ call.op \in {"field", "inputValue"} => \A i \in 1..Len(lines) : once(lines[i])
       /\ call.op \in {"directive", "scalar", "union"} =>
           Len(lines) = 1 /\ never(lines[1])

(***************************************************************************)
(* C7: between the schema { header and the closing brace the root schema   *)
(* has one operation line for each of query, mutation and subscription     *)
(* that is defined, in that order, each preceded by the indented comment   *)
(* lines of the description of its own root type; an undefined root        *)
(* operation contributes no line at all.                                   *)
(***************************************************************************)
C7_RootOperations ==
    call.op = "schema" =>
        LET schema == call.arg
            lines == TopLines(result.text)
            roots == << [op |-> "query", type |-> schema.queryType],
                        [op |-> "mutation", type |-> schema.mutationType],
                        [op |-> "subscription", type |-> schema.subscriptionType] >>
            defined == SelectSeq(roots, LAMBDA r : ~r.type.undef)
            operation(r) == <<r.op, ":", " ", r.type.name>>
            block(r) == << <<>> >>
                        \o Map(Description(r.type.description), Plain)
                        \o <<operation(r)>>
        IN /\ OnlyLines(result.text)
           /\ Plain(lines[1]) = <<"schema", " ", "{">>
           /\ lines[Len(lines)] = <<"}">>
           /\ Map(Middle(lines), Plain) = Flatten(Map(defined, block))
           /\ \A i \in 2..(Len(lines) - 1) :
                  lines[i] = <<>> \/ (Head(lines[i]) = "<tab>" /\ Count(lines[i], "<tab>") = 1)
           /\ \A k \in 1..3 :
                  Cardinality({i \in 1..Len(lines) : Plain(lines[i]) = operation(roots[k])})
                      = IF roots[k].type.undef THEN 0 ELSE 1

C7_Witness ==
    /\ call.op = "schema"
    /\ ~call.arg.queryType.undef
    /\ call.arg.mutationType.undef
    /\ ~call.arg.subscriptionType.undef
    /\ Truthy(call.arg.subscriptionType.description)
    /\ Len(TopLines(result.text)) > 6

(***************************************************************************)
(* C10: when the schema has a subscription type, the subscription line     *)
(* shows the name of the subscription type with the locator requested for  *)
(* the mutation type of the schema, the undefined one when there is no     *)
(* mutation type; the query and mutation lines have the locator of their   *)
(* own type.                                                               *)
(***************************************************************************)
C10_SubscriptionLocator ==
    call.op = "schema" =>
        LET schema == call.arg
            lines == TopLines(result.text)
            line(op) == lines[CHOOSE i \in 1..Len(lines) :
                                  Len(lines[i]) > 2 /\ lines[i][3] = op]
            link(name, url) == <<"<use href=", url, ">", name, "</use>", "</tab>">>
            linked(op, name, url) ==
                SubSeq(line(op), Len(line(op)) - 5, Len(line(op))) = link(name, url)
        IN /\ ~schema.subscriptionType.undef =>
                 /\ linked("subscription", schema.subscriptionType.name,
                           IF schema.mutationType.undef THEN "url(undefined)"
                           ELSE "url(" \o schema.mutationType.name \o ")")
           /\ ~schema.queryType.undef =>
                 linked("query", schema.queryType.name,
                        "url(" \o schema.queryType.name \o ")")
           /\ ~schema.mutationType.undef =>
                 linked("mutation", schema.mutationType.name,
                        "url(" \o schema.mutationType.name \o ")")

C10_Witness ==
    /\ call.op = "schema"
    /\ call.arg.mutationType.undef
    /\ ~call.arg.subscriptionType.undef
    /\ Contains(result.text, <<"<use href=", "url(undefined)", ">", "Subscription">>)

(***************************************************************************)
(* C1: a name that is supplied to code() and is the name of no directive   *)
(* and of no type of the schema makes the call fail with an error that     *)
(* names it; no text is returned for it.                                   *)
(***************************************************************************)
Named(list, name) == {i \in 1..Len(list) : Str(<<list[i].name>>) = name}

C1_UnknownTarget ==
    (/\ call.op = "code"
     /\ call.arg.is = "string"
     /\ Named(document.directives, call.arg) = {}
     /\ Named(document.types, call.arg) = {})
    => /\ result.kind = "throw"
       /\ Contains(result.text, call.arg.s)

(* C1 for the names that are not the empty string *)
C1_NonEmptyUnknownTarget ==
    (/\ call.op = "code"
     /\ Truthy(call.arg)
     /\ Named(document.directives, call.arg) = {}
     /\ Named(document.types, call.arg) = {})
    => /\ result.kind = "throw"
       /\ result.text = <<"Unexpected", " ", "type:", " ">> \o call.arg.s

(***************************************************************************)
(* C2: code() with no name returns the root schema; with the name of a     *)
(* directive the rendering of that directive, also when a type has the     *)
(* same name; with the name of a type and of no directive the rendering    *)
(* of the renderer of the kind of the type, for each of the six kinds.     *)
(***************************************************************************)
First(S) == CHOOSE i \in S : \A j \in S : i <= j

C2_Routing ==
    call.op = "code" =>
        LET directives == Named(document.directives, call.arg)
            types == Named(document.types, call.arg)
            type == document.types[First(types)]
        IN /\ call.arg = Undefined => result = Text(Schema(document))
           /\ directives # {} =>
                  result = Text(Directive(document.directives[First(directives)]))
           /\ directives = {} /\ types # {} =>
                  /\ type.kind = "SCALAR" => result = Text(Scalar(type))
                  /\ type.kind = "OBJECT" => result = Text(Object(type))
                  /\ type.kind = "INTERFACE" => result = Text(Interfaces(type))
                  /\ type.kind = "UNION" => result = Text(Union(type))
                  /\ type.kind = "ENUM" => result = Text(Enum(type))
                  /\ type.kind = "INPUT_OBJECT" => result = Text(InputObject(type))
                  /\ result.kind = "text"

C2_Witness ==
    /\ call.op = "code"
    /\ call.arg = Str(<<TypeName(2)>>)
    /\ Named(document.directives, Str(<<TypeName(1)>>)) # {}
    /\ Named(document.types, call.arg) # {}
    /\ document.types[First(Named(document.types, call.arg))].kind = "ENUM"
    /\ result.kind = "text"
    /\ Contains(Plain(result.text), <<"enum", " ", TypeName(2)>>)

====
